---- MODULE Spec2Model ----
(***************************************************************************)
(* A model of the PNG chunk engine of secret-msg-png: chunk type codes     *)
(* (chunk_type.rs), chunks with their CRC-32 (chunk.rs) and the Png        *)
(* container driven by the command arms of main.rs.                        *)
(*                                                                         *)
(* Bytes are integers 0..255, byte buffers and strings are sequences of    *)
(* bytes (a Rust &str is its UTF-8 bytes, s.len() is the byte count).      *)
(* A Result is a record: [tag |-> "Ok", val |-> v], [tag |-> "Err",        *)
(* err |-> kind], or [tag |-> "Panic", err |-> kind] for an unwrap() of an *)
(* Err, which aborts the process instead of returning.                     *)
(***************************************************************************)
EXTENDS Integers, Sequences, FiniteSets, TLC

VARIABLES
    s,        \* TypeSpec: the string handed to ChunkType::from_str
    tres,     \* TypeSpec: what from_str returned
    flags,    \* TypeSpec: the five predicates read off the constructed type
    pc,       \* ChunkSpec: "start", "built", "bytes", "parsed"
    origin,   \* ChunkSpec: where buf's chunk comes from: "new", "parse", "raw"
    chunk,    \* ChunkSpec: the Chunk value in hand, or NoChunk
    buf,      \* ChunkSpec: the byte buffer handed to Chunk::try_from
    edit,     \* ChunkSpec: what was done to buf after serialization
    pres,     \* ChunkSpec: what Chunk::try_from returned
    file,     \* PngSpec: the bytes of the PNG file on disk
    before,   \* PngSpec: the chunk sequence the last command loaded from the file
    png,      \* PngSpec: that chunk sequence after the command's operation
    cmd,      \* PngSpec: the command last run, with its arguments
    ret       \* PngSpec: what the container operation of that command returned

vars == <<s, tres, flags, pc, origin, chunk, buf, edit, pres, file, before, png, cmd, ret>>
typeVars == <<s, tres, flags>>
chunkVars == <<pc, origin, chunk, buf, edit, pres>>
pngVars == <<file, before, png, cmd, ret>>

-----------------------------------------------------------------------------
(* Bounds of the model *)

\* characters in a string handed to from_str
MaxChars == 4
\* data bytes in a chunk
MaxDataLen == 2
\* bytes removed from, or added to, a serialized chunk
MaxCut == 2
\* chunks in a container file
MaxChunks == 2

-----------------------------------------------------------------------------
(* Results *)

Ok(v) == [tag |-> "Ok", val |-> v]
Err(e) == [tag |-> "Err", err |-> e]
Panic(e) == [tag |-> "Panic", err |-> e]
NotRun == [tag |-> "NotRun"]

NoChunk == [tag |-> "NoChunk"]
NoEdit == [kind |-> "none"]
NoCmd == [name |-> "none"]

-----------------------------------------------------------------------------
(* Bytes and 32-bit words.  A u32 is the record [hi, lo] of its two 16-bit   *)
(* halves: the value is hi * 65536 + lo.                                    *)

\* a xor b, bit by bit
RECURSIVE BitXor(_, _)
BitXor(a, b) ==
    IF a = 0 THEN b
    ELSE IF b = 0 THEN a
    ELSE (((a % 2) + (b % 2)) % 2) + (2 * BitXor(a \div 2, b \div 2))

\* The xor of two bytes, tabulated once: XorTable[a + 1][b + 1] = a xor b
XorTable ==
    SubSeq([a \in 1..256 |->
              SubSeq([b \in 1..256 |-> BitXor(a - 1, b - 1)], 1, 256)], 1, 256)

Xor8(a, b) == XorTable[a + 1][b + 1]

Xor16(a, b) == (Xor8(a \div 256, b \div 256) * 256) + Xor8(a % 256, b % 256)

Xor32(x, y) == [hi |-> Xor16(x.hi, y.hi), lo |-> Xor16(x.lo, y.lo)]

\* x >> n for n < 16
Shr32(x, n) ==
    [hi |-> x.hi \div (2 ^ n),
     lo |-> (x.lo \div (2 ^ n)) + ((x.hi % (2 ^ n)) * (2 ^ (16 - n)))]

\* n as u32, for a usize n
as_u32(n) == [hi |-> (n \div 65536) % 65536, lo |-> n % 65536]

\* u32::to_be_bytes
to_be_bytes(x) == << x.hi \div 256, x.hi % 256, x.lo \div 256, x.lo % 256 >>

\* u32::from_be_bytes
from_be_bytes(b) == [hi |-> (b[1] * 256) + b[2], lo |-> (b[3] * 256) + b[4]]

is_ascii_uppercase(b) == b >= 65 /\ b <= 90
is_ascii_lowercase(b) == b >= 97 /\ b <= 122
is_ascii_alphabetic(b) == is_ascii_uppercase(b) \/ is_ascii_lowercase(b)

-----------------------------------------------------------------------------
(* CRC-32/ISO-HDLC: reflected polynomial 0xEDB88320, init and xorout       *)
(* 0xFFFFFFFF, one table lookup per input byte.                            *)

CrcPoly == [hi |-> 60856, lo |-> 33568]
CrcInit == [hi |-> 65535, lo |-> 65535]

RECURSIVE CrcShift(_, _)
CrcShift(c, n) ==
    IF n = 0 THEN c
    ELSE CrcShift(IF c.lo % 2 = 1 THEN Xor32(Shr32(c, 1), CrcPoly) ELSE Shr32(c, 1),
                  n - 1)

\* The table of the checksum, computed once: CrcTable[i + 1] is the crc
\* register after the byte i alone
CrcTable == SubSeq([i \in 1..256 |-> CrcShift([hi |-> 0, lo |-> i - 1], 8)], 1, 256)

\* The crc register c after the bytes from the i-th on.  (c = c is there for
\* TLC, which evaluates c at that point instead of piling up one unevaluated
\* register per byte.)
RECURSIVE CrcUpdate(_, _, _)
CrcUpdate(c, bytes, i) ==
    IF c = c /\ i > Len(bytes) THEN c
    ELSE CrcUpdate(Xor32(CrcTable[Xor8(c.lo % 256, bytes[i]) + 1], Shr32(c, 8)),
                   bytes, i + 1)

\* (mutant) the checksum loop starts one byte late
checksum_skip_first(bytes) == Xor32(CrcUpdate(CrcInit, bytes, 2), CrcInit)

\* PNG_CRC.checksum
checksum(bytes) == Xor32(CrcUpdate(CrcInit, bytes, 1), CrcInit)

-----------------------------------------------------------------------------
(* ChunkType *)

\* (mutant) digits pass as well, as with is_ascii_alphanumeric
ChunkType_try_from_alphanumeric(value) ==
    IF \E i \in 1..4 : ~is_ascii_alphabetic(value[i]) /\ ~(value[i] >= 48 /\ value[i] <= 57)
    THEN Err("InvalidTypeCode")
    ELSE Ok([bytes |-> value])

\* impl TryFrom<[u8; 4]> for ChunkType
ChunkType_try_from(value) ==
    IF \E i \in 1..4 : ~is_ascii_lowercase(value[i]) /\ ~is_ascii_uppercase(value[i])
    THEN Err("InvalidTypeCode")
    ELSE Ok([bytes |-> value])

\* impl FromStr for ChunkType
from_str(str) ==
    IF Len(str) # 4
    THEN Err("InvalidLength")
    ELSE ChunkType_try_from(str)

\* impl Display for ChunkType: the lossy UTF-8 decoding of the four bytes; a byte
\* that is no ASCII character decodes to U+FFFD, whose UTF-8 bytes are EF BF BD
RECURSIVE from_utf8_lossy(_)
from_utf8_lossy(b) ==
    IF b = <<>> THEN <<>>
    ELSE (IF Head(b) < 128 THEN <<Head(b)>> ELSE <<239, 191, 189>>)
         \o from_utf8_lossy(Tail(b))

\* (mutant) the type prints in upper case
to_string_upper(t) ==
    from_utf8_lossy([i \in 1..4 |-> IF is_ascii_lowercase(t.bytes[i])
                                    THEN t.bytes[i] - 32 ELSE t.bytes[i]])

to_string(t) == from_utf8_lossy(t.bytes)

is_critical(t) == is_ascii_uppercase(t.bytes[1])
is_public(t) == is_ascii_uppercase(t.bytes[2])
is_reserved_bit_valid(t) == is_ascii_uppercase(t.bytes[3])
is_safe_to_copy(t) == is_ascii_lowercase(t.bytes[4])
\* (mutant) the reserved bit is not looked at
is_valid_letters_only(t) ==
    /\ Len(t.bytes) = 4
    /\ \A i \in 1..4 : is_ascii_alphabetic(t.bytes[i])

is_valid(t) ==
    /\ Len(t.bytes) = 4
    /\ is_reserved_bit_valid(t)
    /\ \A i \in 1..4 : is_ascii_alphabetic(t.bytes[i])

-----------------------------------------------------------------------------
(* TypeSpec: from_str and the flag predicates on every short string *)

\* The characters of the strings tried: the letters at both ends of each case,
\* their neighbours in ASCII, a digit, and U+00E9 whose UTF-8 form is two bytes.
Chars == { <<65>>, <<90>>, <<97>>, <<122>>, <<64>>, <<91>>, <<96>>, <<123>>,
           <<49>>, <<195, 169>> }

RECURSIVE Flatten(_)
Flatten(cs) == IF cs = <<>> THEN <<>> ELSE Head(cs) \o Flatten(Tail(cs))

\* the strings of n characters
Strings(n) == { Flatten(cs) : cs \in [1..n -> Chars] }

NoFlags == [run |-> FALSE]

TypeInit ==
    /\ \E n \in 0..MaxChars : s \in Strings(n)
    /\ tres = NotRun
    /\ flags = NoFlags
    /\ pc = "idle" /\ origin = "none" /\ chunk = NoChunk /\ buf = <<>>
    /\ edit = NoEdit /\ pres = NotRun
    /\ file = <<>> /\ before = <<>> /\ png = <<>> /\ cmd = NoCmd /\ ret = NotRun

\* ChunkType::from_str(s)
FromStr ==
    /\ tres = NotRun
    /\ tres' = from_str(s)
    /\ UNCHANGED <<s, flags>>
    /\ UNCHANGED chunkVars
    /\ UNCHANGED pngVars

\* the five predicates of a constructed ChunkType
ReadFlags ==
    /\ tres.tag = "Ok"
    /\ flags = NoFlags
    /\ flags' = [run |-> TRUE,
                 critical |-> is_critical(tres.val),
                 public |-> is_public(tres.val),
                 reserved |-> is_reserved_bit_valid(tres.val),
                 safe |-> is_safe_to_copy(tres.val),
                 valid |-> is_valid(tres.val)]
    /\ UNCHANGED <<s, tres>>
    /\ UNCHANGED chunkVars
    /\ UNCHANGED pngVars

TypeNext == FromStr \/ ReadFlags

TypeSpec == TypeInit /\ [][TypeNext]_vars

-----------------------------------------------------------------------------
(* Chunk *)

as_usize(x) == (x.hi * 65536) + x.lo

\* Chunk::new
Chunk_new(chunk_type, data) ==
    [length |-> as_u32(Len(data)),
     chunk_type |-> chunk_type,
     data |-> data,
     crc |-> checksum(chunk_type.bytes \o data)]

\* (mutant) the type is written before the length
as_bytes_type_first(c) ==
    c.chunk_type.bytes \o to_be_bytes(c.length) \o c.data \o to_be_bytes(c.crc)

\* (mutant) the crc is written little-endian
as_bytes_le_crc(c) ==
    LET crc == to_be_bytes(c.crc)
    IN  to_be_bytes(c.length) \o c.chunk_type.bytes \o c.data
          \o << crc[4], crc[3], crc[2], crc[1] >>

\* Chunk::as_bytes
as_bytes(c) ==
    to_be_bytes(c.length) \o c.chunk_type.bytes \o c.data \o to_be_bytes(c.crc)

\* (mutant) the stored crc is not compared with the recomputed one
Chunk_try_from_no_crc_check(value) ==
    IF Len(value) < 12
    THEN Err("TooShort")
    ELSE
      LET length == from_be_bytes(SubSeq(value, 1, 4))
          total_length == 4 + 4 + as_usize(length) + 4
      IN  IF Len(value) # total_length
          THEN Err("LengthMismatch")
          ELSE
            LET parsed_type == ChunkType_try_from(SubSeq(value, 5, 8))
                end_data == 8 + as_usize(length)
            IN  IF parsed_type.tag # "Ok"
                THEN Panic(parsed_type.err)
                ELSE Ok([length |-> length,
                         chunk_type |-> parsed_type.val,
                         data |-> SubSeq(value, 9, end_data),
                         crc |-> from_be_bytes(SubSeq(value, end_data + 1, end_data + 4))])

\* (mutant) a buffer longer than the length field says passes the length test
Chunk_try_from_len_at_least(value) ==
    IF Len(value) < 12
    THEN Err("TooShort")
    ELSE
      LET length == from_be_bytes(SubSeq(value, 1, 4))
          total_length == 4 + 4 + as_usize(length) + 4
      IN  IF Len(value) < total_length
          THEN Err("LengthMismatch")
          ELSE
            LET parsed_type == ChunkType_try_from(SubSeq(value, 5, 8))
                end_data == 8 + as_usize(length)
                data == SubSeq(value, 9, end_data)
                crc == from_be_bytes(SubSeq(value, end_data + 1, end_data + 4))
            IN  IF parsed_type.tag # "Ok"
                THEN Panic(parsed_type.err)
                ELSE IF crc # checksum(parsed_type.val.bytes \o data)
                THEN Err("CrcMismatch")
                ELSE Ok([length |-> length,
                         chunk_type |-> parsed_type.val,
                         data |-> data,
                         crc |-> crc])

\* impl TryFrom<&[u8]> for Chunk
Chunk_try_from(value) ==
    IF Len(value) < 12
    THEN Err("TooShort")
    ELSE
      LET length == from_be_bytes(SubSeq(value, 1, 4))
          total_length == 4 + 4 + as_usize(length) + 4
      IN  IF Len(value) # total_length
          THEN Err("LengthMismatch")
          ELSE
            LET bytes_array == SubSeq(value, 5, 8)
                parsed_type == ChunkType_try_from(bytes_array)
            IN  IF parsed_type.tag # "Ok"
                THEN Panic(parsed_type.err)    \* .unwrap() of the Err
                ELSE
                  LET chunk_type == parsed_type.val
                      end_data == 8 + as_usize(length)
                      data == SubSeq(value, 9, end_data)
                      crc == from_be_bytes(SubSeq(value, end_data + 1, end_data + 4))
                      expected_crc == checksum(chunk_type.bytes \o data)
                  IN  IF crc # expected_crc
                      THEN Err("CrcMismatch")
                      ELSE Ok([length |-> length,
                               chunk_type |-> chunk_type,
                               data |-> data,
                               crc |-> crc])

\* tests::testing_chunk: the bytes of a chunk put together by hand, with the
\* length and the crc as given
chunk_data(data_length, type_bytes, message_bytes, crc) ==
    to_be_bytes(data_length) \o type_bytes \o message_bytes \o to_be_bytes(crc)

-----------------------------------------------------------------------------
(* ChunkSpec: a chunk is built or its bytes are put together by hand, the     *)
(* bytes are altered once at most on their way, and they are parsed; a       *)
(* parsed chunk is serialized and parsed again.                              *)

\* The type bytes of the chunks built: 'A' and 'z', whose single-bit neighbours
\* are letters of the other case, other letters, and bytes that are no letter.
TypeLetters == {65, 122}
\* The type bytes of the buffers put together by hand.
RawTypeBytes == {64, 65, 122}
DataBytes == {0, 255}

DataSeqs == UNION { [1..n -> DataBytes] : n \in 0..MaxDataLen }

\* x - 1 in u32 arithmetic
Pred32(x) ==
    IF x.lo > 0 THEN [hi |-> x.hi, lo |-> x.lo - 1]
    ELSE [hi |-> (x.hi + 65535) % 65536, lo |-> 65535]

Repeat(b, n) == [i \in 1..n |-> b]

ChunkInit ==
    /\ pc = "start" /\ origin = "none" /\ chunk = NoChunk /\ buf = <<>>
    /\ edit = NoEdit /\ pres = NotRun
    /\ s = <<>> /\ tres = NotRun /\ flags = NoFlags
    /\ file = <<>> /\ before = <<>> /\ png = <<>> /\ cmd = NoCmd /\ ret = NotRun

\* Chunk::new(ChunkType::try_from(tb).unwrap(), d)
New(tb, d) ==
    /\ pc = "start"
    /\ ChunkType_try_from(tb).tag = "Ok"
    /\ chunk' = Chunk_new(ChunkType_try_from(tb).val, d)
    /\ origin' = "new"
    /\ pc' = "built"
    /\ UNCHANGED <<buf, edit, pres>>
    /\ UNCHANGED typeVars
    /\ UNCHANGED pngVars

\* chunk.as_bytes()
Serialize ==
    /\ pc = "built"
    /\ buf' = as_bytes(chunk)
    /\ pc' = "bytes"
    /\ UNCHANGED <<origin, chunk, edit, pres>>
    /\ UNCHANGED typeVars
    /\ UNCHANGED pngVars

\* the bytes of a chunk put together by hand, with the right crc or the crc
\* before it, as in test_valid_chunk_from_bytes and test_invalid_chunk_from_bytes
Forge(tb, d, good) ==
    /\ pc = "start"
    /\ buf' = chunk_data(as_u32(Len(d)), tb, d,
                         IF good THEN checksum(tb \o d) ELSE Pred32(checksum(tb \o d)))
    /\ origin' = "raw"
    /\ pc' = "bytes"
    /\ UNCHANGED <<chunk, edit, pres>>
    /\ UNCHANGED typeVars
    /\ UNCHANGED pngVars

Editable ==
    /\ pc = "bytes"
    /\ origin \in {"new", "parse"}
    /\ edit = NoEdit

\* one bit of a type byte or of a data byte is flipped
FlipBit(i, k) ==
    /\ Editable
    /\ i \in 5..(Len(buf) - 4)
    /\ buf' = [buf EXCEPT ![i] = Xor8(@, 2 ^ k)]
    /\ edit' = [kind |-> "flip", pos |-> i, n |-> k]
    /\ UNCHANGED <<pc, origin, chunk, pres>>
    /\ UNCHANGED typeVars
    /\ UNCHANGED pngVars

\* n bytes are removed between the length field and the crc
Cut(i, n) ==
    /\ Editable
    /\ i >= 5 /\ i + n - 1 <= Len(buf) - 4
    /\ buf' = SubSeq(buf, 1, i - 1) \o SubSeq(buf, i + n, Len(buf))
    /\ edit' = [kind |-> "cut", pos |-> i, n |-> n]
    /\ UNCHANGED <<pc, origin, chunk, pres>>
    /\ UNCHANGED typeVars
    /\ UNCHANGED pngVars

\* n bytes b are added between the length field and the crc
Pad(i, n, b) ==
    /\ Editable
    /\ i \in 5..(Len(buf) - 3)
    /\ buf' = SubSeq(buf, 1, i - 1) \o Repeat(b, n) \o SubSeq(buf, i, Len(buf))
    /\ edit' = [kind |-> "pad", pos |-> i, n |-> n]
    /\ UNCHANGED <<pc, origin, chunk, pres>>
    /\ UNCHANGED typeVars
    /\ UNCHANGED pngVars

\* Chunk::try_from(buf)
Parse ==
    /\ pc = "bytes"
    /\ pres' = Chunk_try_from(buf)
    /\ pc' = "parsed"
    /\ UNCHANGED <<origin, chunk, buf, edit>>
    /\ UNCHANGED typeVars
    /\ UNCHANGED pngVars

\* the chunk a parse returned is serialized in its turn
Reserialize ==
    /\ pc = "parsed"
    /\ pres.tag = "Ok"
    /\ origin # "parse"
    /\ chunk' = pres.val
    /\ buf' = as_bytes(pres.val)
    /\ origin' = "parse"
    /\ edit' = NoEdit
    /\ pres' = NotRun
    /\ pc' = "bytes"
    /\ UNCHANGED typeVars
    /\ UNCHANGED pngVars

ChunkNext ==
    \/ /\ pc = "start"
       /\ \E tb \in [1..4 -> TypeLetters], d \in DataSeqs : New(tb, d)
    \/ Serialize
    \/ /\ pc = "start"
       /\ \E tb \in [1..4 -> RawTypeBytes], d \in DataSeqs, good \in BOOLEAN :
            Forge(tb, d, good)
    \/ /\ Editable
       /\ \E i \in 5..(Len(buf) - 4), k \in 0..7 : FlipBit(i, k)
    \/ /\ Editable
       /\ \E i \in 5..(Len(buf) - 4), n \in 1..MaxCut : Cut(i, n)
    \/ /\ Editable
       /\ \E i \in 5..(Len(buf) - 3), n \in 1..MaxCut : Pad(i, n, 0)
    \/ Parse
    \/ Reserialize

ChunkSpec == ChunkInit /\ [][ChunkNext]_vars

-----------------------------------------------------------------------------
(* Png container.  A container is its sequence of chunks; an operation that *)
(* may fail gives [ret |-> its result, chunks |-> the sequence after it].   *)

STANDARD_HEADER == <<137, 80, 78, 71, 13, 10, 26, 10>>

Min(a, b) == IF a < b THEN a ELSE b

\* The chunks of bytes from offset cursor on, after the chunks acc: each chunk
\* is the slice that its length field announces, or what is left of the buffer
\* when that is shorter; the first failure ends the parse.
RECURSIVE ParseChunks(_, _, _)
ParseChunks(bytes, cursor, acc) ==
    IF cursor >= Len(bytes)
    THEN Ok(acc)
    ELSE
      LET left == Len(bytes) - cursor
          length == from_be_bytes(SubSeq(bytes, cursor + 1, cursor + 4))
          extent == IF left < 4 \/ length.hi > 0 THEN left
                    ELSE Min(left, 12 + length.lo)
          parsed == Chunk_try_from(SubSeq(bytes, cursor + 1, cursor + extent))
      IN  IF parsed.tag # "Ok"
          THEN parsed
          ELSE ParseChunks(bytes, cursor + extent, Append(acc, parsed.val))

\* Png::from_bytes
Png_try_from(bytes) ==
    IF Len(bytes) < 8 \/ SubSeq(bytes, 1, 8) # STANDARD_HEADER
    THEN Err("InvalidSignature")
    ELSE ParseChunks(bytes, 8, <<>>)

\* Png::from_file: the whole file handed to from_bytes
Png_from_file(content) == Png_try_from(content)

RECURSIVE ConcatChunks(_)
ConcatChunks(chunks) ==
    IF chunks = <<>> THEN <<>>
    ELSE as_bytes(Head(chunks)) \o ConcatChunks(Tail(chunks))

\* Png::to_bytes
Png_as_bytes(chunks) == STANDARD_HEADER \o ConcatChunks(chunks)

\* Png::append_chunk
append_chunk(chunks, c) == [ret |-> Ok(<<>>), chunks |-> Append(chunks, c)]

\* Png::insert_chunk
insert_chunk(chunks, index, c) ==
    IF index > Len(chunks)
    THEN [ret |-> Err("IndexOutOfBounds"), chunks |-> chunks]
    ELSE [ret |-> Ok(<<>>),
          chunks |-> SubSeq(chunks, 1, index) \o <<c>>
                       \o SubSeq(chunks, index + 1, Len(chunks))]

\* the positions of the chunks whose type prints as type_str
Matching(chunks, type_str) ==
    { i \in 1..Len(chunks) : to_string(chunks[i].chunk_type) = type_str }

\* Png::chunk_by_type: the Option as a sequence of at most one chunk
chunk_by_type(chunks, type_str) ==
    LET m == Matching(chunks, type_str)
    IN  IF m = {} THEN <<>>
        ELSE << chunks[CHOOSE i \in m : \A j \in m : i <= j] >>

\* Png::remove_first_chunk
remove_first_chunk(chunks, type_str) ==
    LET m == Matching(chunks, type_str)
    IN  IF m = {}
        THEN [ret |-> Err("ChunkNotFound"), chunks |-> chunks]
        ELSE LET first == CHOOSE i \in m : \A j \in m : i <= j
             IN  [ret |-> Ok(<<>>),
                  chunks |-> SubSeq(chunks, 1, first - 1)
                               \o SubSeq(chunks, first + 1, Len(chunks))]

-----------------------------------------------------------------------------
(* PngSpec: the commands of main run one after the other on one PNG file.   *)

\* "ruSt", "teXt", and "Ru1t" which is no type code
TypeArgs == { <<114, 117, 83, 116>>, <<116, 101, 88, 116>>, <<82, 117, 49, 116>> }
\* "h" and "hi"
SecretArgs == { <<104>>, <<104, 105>> }
\* --index: absent, or a position
IndexArgs == { <<>> } \cup { <<i>> : i \in 0..(MaxChunks + 1) }

\* The chunks of the files the commands start from, each put together by hand
RawChunks ==
    { chunk_data(as_u32(Len(d)), tb, d, checksum(tb \o d)) :
        tb \in { <<114, 117, 83, 116>>, <<116, 101, 88, 116>> }, d \in SecretArgs }

GoodFiles == { STANDARD_HEADER } \cup { STANDARD_HEADER \o c : c \in RawChunks }

\* Damaged files, made from the file that holds the one chunk "ruSt" "hi": one
\* byte changed in its lowest bit, the last byte missing, or a zero byte too
\* many at the end
BadFiles ==
    LET f == STANDARD_HEADER
               \o chunk_data(as_u32(2), <<114, 117, 83, 116>>, <<104, 105>>,
                             checksum(<<114, 117, 83, 116, 104, 105>>))
    IN  { [f EXCEPT ![i] = Xor8(@, 1)] : i \in 1..Len(f) }
          \cup { SubSeq(f, 1, Len(f) - 1), f \o <<0>> }

PngInit ==
    /\ file \in GoodFiles \cup BadFiles
    /\ before = <<>> /\ png = <<>> /\ cmd = NoCmd /\ ret = NotRun
    /\ s = <<>> /\ tres = NotRun /\ flags = NoFlags
    /\ pc = "idle" /\ origin = "none" /\ chunk = NoChunk /\ buf = <<>>
    /\ edit = NoEdit /\ pres = NotRun

\* a command that panics before it has done anything
Aborted(c, r) ==
    /\ cmd' = c
    /\ ret' = Panic(r.err)
    /\ UNCHANGED <<file, before, png>>
    /\ UNCHANGED <<typeVars, chunkVars>>

\* (mutant) main, Encode arm, with the two arms of the match on --index swapped
Encode_arms_swapped(type_arg, secret, index) ==
    \E chunk_type \in {from_str(type_arg)}, loaded \in {Png_from_file(file)} :
      LET c == [name |-> "encode", chunk_type |-> type_arg, secret |-> secret,
                index |-> index]
      IN  IF chunk_type.tag # "Ok" THEN Aborted(c, chunk_type)
          ELSE IF loaded.tag # "Ok" THEN Aborted(c, loaded)
          ELSE
            \E done \in { IF index = <<>>
                          THEN insert_chunk(loaded.val, Len(loaded.val),
                                            Chunk_new(chunk_type.val, secret))
                          ELSE append_chunk(loaded.val,
                                            Chunk_new(chunk_type.val, secret)) } :
              /\ Len(done.chunks) <= MaxChunks
              /\ cmd' = c
              /\ before' = loaded.val
              /\ png' = done.chunks
              /\ ret' = done.ret
              /\ file' = Png_as_bytes(done.chunks)
              /\ UNCHANGED <<typeVars, chunkVars>>

\* main, Encode arm: the chunk is inserted at --index or appended, the result
\* of the operation is dropped and the container is saved (to the input file:
\* no --output, and an input path that ends in .png)
Encode(type_arg, secret, index) ==
    \E chunk_type \in {from_str(type_arg)}, loaded \in {Png_from_file(file)} :
      LET c == [name |-> "encode", chunk_type |-> type_arg, secret |-> secret,
                index |-> index]
      IN  IF chunk_type.tag # "Ok" THEN Aborted(c, chunk_type)
          ELSE IF loaded.tag # "Ok" THEN Aborted(c, loaded)
          ELSE
            \E done \in { IF index # <<>>
                          THEN insert_chunk(loaded.val, index[1],
                                            Chunk_new(chunk_type.val, secret))
                          ELSE append_chunk(loaded.val,
                                            Chunk_new(chunk_type.val, secret)) } :
              /\ Len(done.chunks) <= MaxChunks
              /\ cmd' = c
              /\ before' = loaded.val
              /\ png' = done.chunks
              /\ ret' = done.ret
              /\ file' = Png_as_bytes(done.chunks)
              /\ UNCHANGED <<typeVars, chunkVars>>

\* main, Decode arm
Decode(type_arg) ==
    \E loaded \in {Png_from_file(file)} :
      LET c == [name |-> "decode", chunk_type |-> type_arg]
      IN  IF loaded.tag # "Ok" THEN Aborted(c, loaded)
          ELSE /\ cmd' = c
               /\ before' = loaded.val
               /\ png' = loaded.val
               /\ ret' = Ok(chunk_by_type(loaded.val, type_arg))
               /\ UNCHANGED file
               /\ UNCHANGED <<typeVars, chunkVars>>

\* main, Print arm
PrintChunks ==
    \E loaded \in {Png_from_file(file)} :
      LET c == [name |-> "print"]
      IN  IF loaded.tag # "Ok" THEN Aborted(c, loaded)
          ELSE /\ cmd' = c
               /\ before' = loaded.val
               /\ png' = loaded.val
               /\ ret' = Ok([i \in 1..Len(loaded.val) |->
                              << to_string(loaded.val[i].chunk_type),
                                 Len(loaded.val[i].data) >>])
               /\ UNCHANGED file
               /\ UNCHANGED <<typeVars, chunkVars>>

\* main, Remove arm: the file is saved only when a chunk was removed
Remove(type_arg) ==
    \E loaded \in {Png_from_file(file)} :
      LET c == [name |-> "remove", chunk_type |-> type_arg]
      IN  IF loaded.tag # "Ok" THEN Aborted(c, loaded)
          ELSE
            \E done \in {remove_first_chunk(loaded.val, type_arg)} :
              /\ cmd' = c
              /\ before' = loaded.val
              /\ png' = done.chunks
              /\ ret' = done.ret
              /\ file' = IF done.ret.tag = "Ok" THEN Png_as_bytes(done.chunks) ELSE file
              /\ UNCHANGED <<typeVars, chunkVars>>

PngNext ==
    \/ \E t \in TypeArgs, m \in SecretArgs, i \in IndexArgs : Encode(t, m, i)
    \/ \E t \in TypeArgs : Decode(t)
    \/ PrintChunks
    \/ \E t \in TypeArgs : Remove(t)

PngSpec == PngInit /\ [][PngNext]_vars

-----------------------------------------------------------------------------
(* Properties of ChunkType, checked under TypeSpec *)

Upper == 65..90
Lower == 97..122
Letters == Upper \cup Lower

\* C6: from_str(s) fails with InvalidLength exactly when the byte length of s
\* is not 4, whatever its characters; a string of 4 bytes fails with
\* InvalidTypeCode exactly when one of its bytes is no ASCII letter, and
\* otherwise gives the type made of its 4 bytes, unchanged.
C6_ParseStr ==
    tres # NotRun =>
        /\ (tres = Err("InvalidLength")) <=> (Len(s) # 4)
        /\ Len(s) = 4 =>
             /\ (tres = Err("InvalidTypeCode")) <=> (\E i \in 1..4 : s[i] \notin Letters)
             /\ (\A i \in 1..4 : s[i] \in Letters) => tres = Ok([bytes |-> s])

\* from_str has rejected a string of 4 bytes (two 2-byte characters) for a
\* byte that is no letter
C6_Witness ==
    /\ s = <<195, 169, 195, 169>>
    /\ tres = Err("InvalidTypeCode")

\* C7: on a constructed ChunkType, is_critical is "byte 0 is uppercase",
\* is_public "byte 1 is uppercase", is_reserved_bit_valid "byte 2 is
\* uppercase", is_safe_to_copy "byte 3 is lowercase", is_valid "all four bytes
\* are letters and byte 2 is uppercase"; is_valid and is_reserved_bit_valid agree.
C7_Flags ==
    flags.run =>
        LET b == tres.val.bytes
        IN  /\ flags.critical = (b[1] \in Upper)
            /\ flags.public = (b[2] \in Upper)
            /\ flags.reserved = (b[3] \in Upper)
            /\ flags.safe = (b[4] \in Lower)
            /\ flags.valid = ((\A i \in 1..4 : b[i] \in Letters) /\ b[3] \in Upper)
            /\ flags.valid = flags.reserved

\* the flags of a type like "Rust" have been read: critical, reserved bit not
\* valid, not valid
C7_Witness ==
    /\ flags.run
    /\ tres.val.bytes = <<65, 122, 97, 122>>
    /\ flags.critical /\ ~flags.reserved /\ ~flags.valid /\ flags.safe

-----------------------------------------------------------------------------
(* Properties of Chunk, checked under ChunkSpec *)

TestMessage ==
    << 84, 104, 105, 115, 32, 105, 115, 32, 119, 104, 101, 114, 101, 32, 121,
       111, 117, 114, 32, 115, 101, 99, 114, 101, 116, 32, 109, 101, 115, 115,
       97, 103, 101, 32, 119, 105, 108, 108, 32, 98, 101, 33 >>

\* tests::test_new_chunk: the chunk "RuSt" with the 42 bytes of the test
\* message has length 42 and crc 2882656334 (0xABD1D84E)
TestNewChunk ==
    LET c == Chunk_new([bytes |-> <<82, 117, 83, 116>>], TestMessage)
    IN  c.length = [hi |-> 0, lo |-> 42] /\ c.crc = [hi |-> 43985, lo |-> 55374]

\* C2: the bytes of a chunk built by Chunk::new, or returned by an earlier
\* parse, parse to a chunk with the same length, type, data and crc.
C2_RoundTrip ==
    (pc = "parsed" /\ origin \in {"new", "parse"} /\ edit = NoEdit) =>
        /\ pres.tag = "Ok"
        /\ pres.val.length = chunk.length
        /\ pres.val.chunk_type = chunk.chunk_type
        /\ pres.val.data = chunk.data
        /\ pres.val.crc = chunk.crc

\* the bytes of a chunk that came out of a parse have been parsed again
C2_Witness ==
    /\ pc = "parsed" /\ origin = "parse" /\ edit = NoEdit
    /\ pres = Ok(chunk)
    /\ Len(chunk.data) = 2

Sound(c) ==
    /\ c.length = as_u32(Len(c.data))
    /\ c.crc = checksum(c.chunk_type.bytes \o c.data)

\* C3: every chunk built by Chunk::new or returned by a parse has length = the
\* number of its data bytes and crc = the CRC-32 of its type bytes followed by
\* its data (the CRC-32 that gives the crc of test_new_chunk).
C3_ChunkSound ==
    /\ TestNewChunk
    /\ chunk # NoChunk => Sound(chunk)
    /\ pres.tag = "Ok" => Sound(pres.val)

\* a parse of bytes put together by hand has returned a chunk with data
C3_Witness ==
    /\ pc = "parsed" /\ origin = "raw"
    /\ pres.tag = "Ok"
    /\ Len(pres.val.data) = 2

TypeBytesAreLetters(b) == \A i \in 5..8 : b[i] \in Letters

\* C4 as stated: a flip of any one bit of the type bytes or of the data bytes
\* of a serialized chunk makes the parse fail with CrcMismatch.
C4_AnyFlipCrcMismatch ==
    (pc = "parsed" /\ edit.kind = "flip") => pres = Err("CrcMismatch")

\* C4 amended: a flip of one bit of the data bytes, or of one bit of the type
\* bytes that leaves them four ASCII letters, makes the parse fail with
\* CrcMismatch; a flip that makes a type byte a non-letter makes the parse
\* fail on the type code, never with CrcMismatch.
C4_FlipCrcMismatch ==
    (pc = "parsed" /\ edit.kind = "flip") =>
        IF TypeBytesAreLetters(buf)
        THEN pres = Err("CrcMismatch")
        ELSE pres.tag \notin {"Ok", "NotRun"} /\ pres.err = "InvalidTypeCode"

\* a flip in a type byte that left it a letter has been caught by the crc
C4_Witness ==
    /\ pc = "parsed" /\ edit.kind = "flip" /\ edit.pos = 5
    /\ TypeBytesAreLetters(buf)
    /\ pres = Err("CrcMismatch")

\* C5 as stated: bytes removed or added between the length field and the crc
\* make the parse fail with LengthMismatch, whatever the size of the result.
C5_AnySizeLengthMismatch ==
    (pc = "parsed" /\ edit.kind \in {"cut", "pad"}) => pres = Err("LengthMismatch")

\* C5 amended: bytes removed or added between the length field and the crc
\* make the parse fail with LengthMismatch when at least 12 bytes are left,
\* and with TooShort when fewer than 12 are.
C5_LengthMismatch ==
    (pc = "parsed" /\ edit.kind \in {"cut", "pad"}) =>
        pres = IF Len(buf) < 12 THEN Err("TooShort") ELSE Err("LengthMismatch")

\* a padded chunk has been rejected for its length
C5_Witness ==
    /\ pc = "parsed" /\ edit.kind = "pad"
    /\ Len(buf) > 12
    /\ pres = Err("LengthMismatch")

\* C10: the parse of a buffer of at least 12 bytes whose length field fits and
\* whose type bytes hold a non-letter returns the error InvalidTypeCode.
C10_InvalidTypeReturned ==
    ( /\ pc = "parsed"
      /\ Len(buf) >= 12
      /\ from_be_bytes(SubSeq(buf, 1, 4)) = as_u32(Len(buf) - 12)
      /\ ~TypeBytesAreLetters(buf) )
    => pres = Err("InvalidTypeCode")

-----------------------------------------------------------------------------
(* Properties of the Png container, checked under PngSpec *)

\* the sequence q without its k-th element
Without(q, k) == SubSeq(q, 1, k - 1) \o SubSeq(q, k + 1, Len(q))

\* C1: the bytes of a file that from_bytes accepts are the bytes that to_bytes
\* gives for the container parsed from them.
C1_PngRoundTrip ==
    (cmd.name \in {"print", "decode"} /\ ret.tag = "Ok") =>
        /\ png = before
        /\ Png_as_bytes(png) = file

\* a file put together by hand, holding a chunk, has been loaded
C1_Witness ==
    /\ cmd.name = "print" /\ ret.tag = "Ok"
    /\ file \in GoodFiles
    /\ Len(png) = 1

====
